---- MODULE Spec2Model ----
(***************************************************************************)
(* RevitAI: the cross-thread dispatcher (lib/external_event.py) and the    *)
(* safety validator (lib/safety_validator.py).                             *)
(*                                                                         *)
(* Caller threads call validate_action and execute_on_main_thread; the     *)
(* host (Revit) thread runs RevitExternalEventHandler.Execute once per     *)
(* wake-up of the external event.  The statements that read or write a    *)
(* shared attribute are steps of their own (two merges are justified where *)
(* they are made), so the interleavings of queue_operation with Execute    *)
(* are the ones the two threads can produce.                               *)
(***************************************************************************)
EXTENDS Integers, Sequences, FiniteSets, TLC

\* ------------------------------------------------------------------ bounds
\* requests created over a run (the request_queue is never drained)
MaxRequests == 2
\* validate_action calls made on one Action
MaxValidations == 2
\* load_config and get calls made on one ConfigManager
MaxConfigCalls == 3

\* --------------------------------------------------------- program constants
None == 0
DEFAULT_MAX_ELEMENTS == 500
DEFAULT_MAX_DIMENSIONS == 1000
DEFAULT_MAX_TAGS == 1000
DefaultTimeout == 30
ResultQueueMaxsize == 1

ALLOWED_OPERATIONS == {"create_dimensions", "create_tags", "read_elements"}

BLOCKED_OPERATIONS ==
    {"delete_elements", "modify_walls", "modify_doors", "modify_rooms",
     "save_project", "close_project", "export_data", "import_data"}

\* ------------------------------------------------------------ safety validator
\* A dict is a record with the set of keys it holds; d.get(k, default).
Get(d, k, default) == IF k \in d.keys THEN d[k] ELSE default

Accept == [ok |-> TRUE, error |-> "", reason |-> ""]
ValidationError(reason) == [ok |-> FALSE, error |-> "ValidationError", reason |-> reason]

\* str < str as Python compares them, by code point, for the characters that
\* operation names are made of
Alphabet == "_abcdefghijklmnopqrstuvwxyz"
CodePoint(c) == CHOOSE i \in 1..Len(Alphabet) : SubSeq(Alphabet, i, i) = c

RECURSIVE StrLess(_, _)
StrLess(a, b) ==
    IF b = "" THEN FALSE
    ELSE IF a = "" THEN TRUE
    ELSE IF SubSeq(a, 1, 1) # SubSeq(b, 1, 1)
    THEN CodePoint(SubSeq(a, 1, 1)) < CodePoint(SubSeq(b, 1, 1))
    ELSE StrLess(SubSeq(a, 2, Len(a)), SubSeq(b, 2, Len(b)))

\* sorted(a_set): the elements in ascending order
RECURSIVE Descending(_)
Descending(S) ==
    IF S = {} THEN <<>>
    ELSE LET m == CHOOSE x \in S : \A y \in S \ {x} : StrLess(y, x)
         IN <<m>> \o Descending(S \ {m})
RECURSIVE sorted(_)
sorted(S) ==
    IF S = {} THEN <<>>
    ELSE LET m == CHOOSE x \in S : \A y \in S \ {x} : StrLess(x, y)
         IN <<m>> \o sorted(S \ {m})

\* ', '.join(a_list)
RECURSIVE join(_, _)
join(sep, seq) ==
    IF seq = <<>> THEN ""
    ELSE IF Len(seq) = 1 THEN seq[1]
    ELSE seq[1] \o sep \o join(sep, Tail(seq))

\* the messages of _validate_operation_allowed
ForbiddenMessage(operation) ==
    "Operation '" \o operation \o "' is explicitly forbidden. "
        \o "This operation could damage the project file."
NotAllowedMessage(operation, allowed) ==
    "Operation '" \o operation \o "' is not allowed. "
        \o "Permitted operations: " \o join(", ", sorted(allowed))

\* _validate_operation_allowed over the module's two sets as they stand when
\* it runs: the blocklist first, then the allowlist
AllowlistFirst(operation, allowed, blocked) ==
    IF operation \in allowed THEN Accept
    ELSE IF operation \in blocked THEN ValidationError(ForbiddenMessage(operation))
    ELSE ValidationError(NotAllowedMessage(operation, allowed))
AllowlistOfWriters(operation, allowed, blocked) ==
    IF operation \in blocked THEN ValidationError(ForbiddenMessage(operation))
    ELSE IF operation \notin allowed \ {"read_elements"}
    THEN ValidationError(NotAllowedMessage(operation, allowed))
    ELSE Accept
validate_operation_allowed_in(operation, allowed, blocked) ==
    IF operation \in blocked THEN ValidationError(ForbiddenMessage(operation))
    ELSE IF operation \notin allowed
    THEN ValidationError(NotAllowedMessage(operation, allowed))
    ELSE Accept

validate_operation_allowed(operation) ==
    validate_operation_allowed_in(operation, ALLOWED_OPERATIONS, BLOCKED_OPERATIONS)

Targets(action) == Get(action, "targets", [keys |-> {}])

ScopeOK(scope) ==
    \/ scope = ""
    \/ scope \in {"current_view", "selected", "all"}
    \/ (Len(scope) >= 6 /\ SubSeq(scope, 1, 6) = "Level ")

CeilingsExclusive(action, max_elements, max_dimensions) ==
    IF Get(Targets(action), "element_count", 0) >= max_elements
    THEN ValidationError("Operation scope too large")
    ELSE IF Get(action, "estimated_dimension_count", 0) >= max_dimensions
    THEN ValidationError("Too many dimensions")
    ELSE IF ~ScopeOK(Get(Targets(action), "scope", ""))
    THEN ValidationError("Invalid scope")
    ELSE Accept
validate_dimension_operation(action, max_elements, max_dimensions) ==
    IF Get(Targets(action), "element_count", 0) > max_elements
    THEN ValidationError("Operation scope too large")
    ELSE IF Get(action, "estimated_dimension_count", 0) > max_dimensions
    THEN ValidationError("Too many dimensions")
    ELSE IF ~ScopeOK(Get(Targets(action), "scope", ""))
    THEN ValidationError("Invalid scope")
    ELSE Accept

AllowedTagTypes == {"Door", "Window", "Room", "Wall", "Floor", "Ceiling"}

validate_tag_operation(action, max_elements, max_tags) ==
    IF Get(Targets(action), "element_count", 0) > max_elements
    THEN ValidationError("Operation scope too large")
    ELSE IF Get(action, "estimated_tag_count", 0) > max_tags
    THEN ValidationError("Too many tags")
    ELSE IF /\ Get(Targets(action), "element_type", "") # ""
            /\ Get(Targets(action), "element_type", "") \notin AllowedTagTypes
    THEN ValidationError("Cannot tag element type")
    ELSE Accept

validate_read_operation(action, max_elements) ==
    IF Get(Targets(action), "element_count", 0) > max_elements * 2
    THEN ValidationError("Query scope too large")
    ELSE Accept

\* SafetyValidator.validate_action with the ceilings the validator loaded and
\* the module's two sets as they stand
OperationDefaultsToEmpty(a, lim, allowed, blocked) ==
    IF ~a.isdict THEN ValidationError("Action must be a dictionary")
    ELSE validate_operation_allowed_in(Get(a, "operation", ""), allowed, blocked)
SafetyValidator_validate_action(a, lim, allowed, blocked) ==
    IF ~a.isdict THEN ValidationError("Action must be a dictionary")
    ELSE IF "operation" \notin a.keys
    THEN ValidationError("Action missing 'operation' field")
    ELSE IF ~validate_operation_allowed_in(a.operation, allowed, blocked).ok
    THEN validate_operation_allowed_in(a.operation, allowed, blocked)
    ELSE IF a.operation = "create_dimensions"
    THEN validate_dimension_operation(a, lim.max_elements, lim.max_dimensions)
    ELSE IF a.operation = "create_tags"
    THEN validate_tag_operation(a, lim.max_elements, lim.max_tags)
    ELSE IF a.operation = "read_elements"
    THEN validate_read_operation(a, lim.max_elements)
    ELSE Accept

validate_action_with(a, max_elements, max_dimensions, max_tags) ==
    SafetyValidator_validate_action(
        a,
        [max_elements |-> max_elements, max_dimensions |-> max_dimensions,
         max_tags |-> max_tags],
        ALLOWED_OPERATIONS, BLOCKED_OPERATIONS)

\* the module-level validate_action: the singleton validator, default ceilings
validate_action(action) ==
    validate_action_with(action, DEFAULT_MAX_ELEMENTS, DEFAULT_MAX_DIMENSIONS,
                         DEFAULT_MAX_TAGS)

\* The actions callers dispatch in the dispatcher model: the valid dimension
\* action and the blocked action of test_safety_validator.
ValidDimensionAction ==
    [isdict |-> TRUE,
     keys |-> {"operation", "targets", "parameters", "estimated_dimension_count"},
     operation |-> "create_dimensions",
     targets |-> [keys |-> {"element_type", "scope", "element_count"},
                  element_type |-> "Room", scope |-> "Level 1", element_count |-> 12],
     estimated_dimension_count |-> 48]

BlockedAction ==
    [isdict |-> TRUE,
     keys |-> {"operation", "targets"},
     operation |-> "delete_elements",
     targets |-> [keys |-> {}]]

DispatchActions == {"valid_dimensions", "delete_elements"}

ActionNamed(name) ==
    IF name = "valid_dimensions" THEN ValidDimensionAction ELSE BlockedAction

\* ------------------------------------------------------------------ dispatcher
RequestIds == 1..MaxRequests

\* What a value or an exception is to this model: its class and its text.
Payload(kind, text) == [kind |-> kind, text |-> text]
NoneValue == Payload("None", "")

\* What an operation callable does when the host runs it: return a value or
\* raise an exception (a timeout-type one included).
OperationOutcomes ==
    {Payload("Value", "rooms"), Payload("Value", "text_note"),
     Payload("TimeoutError", "host busy")}

IsException(p) == p.kind \notin {"Value", "None"}

\* timeout arguments of wait_for_result: 0, the default 30.0, None (forever)
WaitForever == -1
Timeouts == {0, DefaultTimeout, WaitForever}

\* The calls of execute_on_main_thread the callers make: the Action the
\* operation carries out, what the operation does on the host, the timeout.
Call(a, o, t) == [action |-> a, does |-> o, timeout |-> t]
Calls ==
    {Call("valid_dimensions", Payload("Value", "rooms"), WaitForever),
     Call("valid_dimensions", Payload("Value", "text_note"), 0),
     Call("delete_elements", Payload("TimeoutError", "host busy"), DefaultTimeout)}

\* How a call ended for its caller: a returned value or a raised exception.
Returned(p) == [raised |-> FALSE, kind |-> p.kind, text |-> p.text]
Raised(kind, text) == [raised |-> TRUE, kind |-> kind, text |-> text]
Pending == [raised |-> FALSE, kind |-> "Pending", text |-> ""]

VARIABLES
    external_event,     \* RevitEventManager.external_event: "None" or "ExternalEvent"
    current_request,    \* RevitExternalEventHandler.current_request: None or a request
    request_queue,      \* RevitExternalEventHandler.request_queue (never read back)
    operation,          \* request -> what its operation callable does when run
    action_of,          \* request -> the Action its operation carries out
    timeout,            \* request -> the timeout its caller waits with
    result_queue,       \* request -> RevitOperationRequest.result_queue (maxsize 1)
    exception,          \* request -> RevitOperationRequest.exception
    pc,                 \* request -> where its caller is in execute_on_main_thread
    hpc,                \* where the host thread is in Execute
    hreq,               \* the request whose execute() the host thread is in
    last_result,        \* what the last Execute returned to the host loop
    raised,             \* wake-ups of the host loop not yet served
    validated,          \* the Actions validate_action has been called on
    \* history, read by the properties only
    executions,         \* requests in the order the host started to run them
    puts,               \* request -> number of writes to a result_queue by it
    delivered,          \* request -> what wait_for_result gave its caller
    serial,             \* every call so far began after the earlier ones completed
    doc_failed          \* an Execute failed to get the active document

VARIABLES
    revit_api,          \* "from Autodesk.Revit.UI import ..." succeeds in this process
    \* the safety validator at work on one Action (ValidatorSpec)
    action,             \* the Action handed to validate_action
    limits,             \* max_elements, max_dimensions, max_tags the validator loaded
    policy,             \* ALLOWED_OPERATIONS and BLOCKED_OPERATIONS as they stand
    verdict,            \* what validate_action did: NotValidated, Accept or an error
    scope_check,        \* what check_scope_limits did for the same Action
    validations         \* history: validate_action calls made on this Action

NotValidated == [ok |-> FALSE, error |-> "none", reason |-> ""]
NoAction == [isdict |-> FALSE, keys |-> {}]
DefaultLimits ==
    [max_elements |-> DEFAULT_MAX_ELEMENTS, max_dimensions |-> DEFAULT_MAX_DIMENSIONS,
     max_tags |-> DEFAULT_MAX_TAGS]

SourcePolicy == [allowed |-> ALLOWED_OPERATIONS, blocked |-> BLOCKED_OPERATIONS]

validatorVars == <<action, limits, policy, verdict, scope_check, validations>>

VARIABLES
    \* example_create_text_note run as a dispatched operation (TransactionSpec)
    tpc,                \* where the operation is in example_create_text_note
    fault,              \* the host call that raises in this run ("none": none does)
    text,               \* the text argument of the operation
    document,           \* the elements of the document (MockDocument._elements)
    restore,            \* what the host restores on RollBack: the document at Start
    t_started,          \* MockTransaction._started
    t_committed,        \* MockTransaction._committed
    exc,                \* the exception propagating out of the operation, or NoneValue
    retval,             \* the value the operation returned, or NoneValue
    tx_delivered,       \* what wait_for_result gave the caller of the operation
    \* history, read by the properties only
    submitted_document, \* the document when the operation was submitted
    commits,            \* successful Commit() calls
    rollbacks           \* RollBack() calls

transactionVars == <<tpc, fault, text, document, restore, t_started, t_committed, exc,
                     retval, tx_delivered, submitted_document, commits, rollbacks>>

\* no operation with a transaction is under way
TransactionIdle ==
    /\ tpc = "idle" /\ fault = "none" /\ text = "" /\ document = <<>>
    /\ restore = <<>> /\ t_started = FALSE /\ t_committed = FALSE
    /\ exc = NoneValue /\ retval = NoneValue /\ tx_delivered = Pending
    /\ submitted_document = <<>> /\ commits = 0 /\ rollbacks = 0

\* ------------------------------------------------------- configuration manager
\* What yaml.safe_load returns: None, a scalar, a list or a dict.  A dict is
\* the set of its <<key, value>> items.
PyNone == [t |-> "none"]
PyStr(s) == [t |-> "str", s |-> s]
PyInt(n) == [t |-> "int", n |-> n]
PyBool(b) == [t |-> "bool", b |-> b]
PyList(elems) == [t |-> "list", elems |-> elems]
PyDict(items) == [t |-> "dict", items |-> items]

\* bool(value), as "if not self._config" takes it
Truthy(v) ==
    CASE v.t = "none" -> FALSE
      [] v.t = "str"  -> v.s # ""
      [] v.t = "int"  -> v.n # 0
      [] v.t = "bool" -> v.b
      [] v.t = "list" -> v.elems # <<>>
      [] v.t = "dict" -> v.items # {}

\* The file at config_path: whether it exists, whether the example file
\* beside it does, whether its text is valid YAML, and the document
\* yaml.safe_load makes of it (None for a file with no document in it).
MissingFile(example) ==
    [exists |-> FALSE, example |-> example, valid |-> TRUE, yaml |-> PyNone]
InvalidFile == [exists |-> TRUE, example |-> FALSE, valid |-> FALSE, yaml |-> PyNone]
FileOf(yaml) == [exists |-> TRUE, example |-> FALSE, valid |-> TRUE, yaml |-> yaml]
EmptyFile == FileOf(PyNone)

\* how a call of the configuration manager ended
ConfigReturned(value) ==
    [raised |-> FALSE, error |-> "", message |-> "", value |-> value]
ConfigurationError(message) ==
    [raised |-> TRUE, error |-> "ConfigurationError", message |-> message,
     value |-> PyNone]

VARIABLES
    \* one ConfigManager and the file at its config_path (ConfigSpec)
    config_file,        \* the file at self.config_path
    _config,            \* self._config: None, or what load_config cached
    config_result,      \* the last call of load_config or get, and how it ended
    config_calls        \* history: calls of load_config and get made so far

NoCall == [call |-> "none", key |-> "", default |-> PyNone,
           outcome |-> ConfigReturned(PyNone)]

configVars == <<config_file, _config, config_result, config_calls>>

\* a ConfigManager on which nothing was called yet, no file at its config_path
ConfigIdle ==
    /\ config_file = MissingFile(FALSE) /\ _config = PyNone
    /\ config_result = NoCall /\ config_calls = 0

\* what the dispatcher's steps leave alone: the state of the other components
outsideVars == <<revit_api, validatorVars, transactionVars, configVars>>

\* no Action is being validated
ValidatorIdle ==
    /\ action = NoAction /\ limits = DefaultLimits /\ policy = SourcePolicy
    /\ verdict = NotValidated /\ scope_check = NotValidated /\ validations = 0

vars == <<outsideVars, external_event, current_request, request_queue, operation, action_of,
          timeout, result_queue, exception, pc, hpc, hreq, last_result, raised,
          validated, executions, puts, delivered, serial, doc_failed>>

dispatcherVars == <<current_request, request_queue, operation, action_of, timeout,
                    result_queue, exception>>
hostVars == <<hpc, hreq, last_result>>
historyVars == <<executions, puts, delivered, serial, doc_failed>>

\* the requests created so far; request r is the r-th one made current
Created == 1..Len(request_queue)

\* REVIT_API_AVAILABLE: set by the try/except around the Revit imports
REVIT_API_AVAILABLE == revit_api

\* The module body runs to its end only if the base class of
\* "class RevitExternalEventHandler(IExternalEventHandler)" is bound: when the
\* import failed the name is undefined and the class statement raises NameError.
ModuleImported == REVIT_API_AVAILABLE

managerVars == <<external_event, dispatcherVars, pc, hostVars, historyVars, raised,
                 validated>>

\* the dispatcher after get_event_manager(): nothing initialised or submitted
DispatcherInit ==
    /\ external_event = "None"
    /\ current_request = None
    /\ request_queue = <<>>
    /\ operation = [r \in RequestIds |-> NoneValue]
    /\ action_of = [r \in RequestIds |-> "none"]
    /\ timeout = [r \in RequestIds |-> DefaultTimeout]
    /\ result_queue = [r \in RequestIds |-> <<>>]
    /\ exception = [r \in RequestIds |-> NoneValue]
    /\ pc = [r \in RequestIds |-> "none"]
    /\ hpc = "idle"
    /\ hreq = None
    /\ last_result = "none"
    /\ raised = 0
    /\ validated = {}
    /\ executions = <<>>
    /\ puts = [r \in RequestIds |-> 0]
    /\ delivered = [r \in RequestIds |-> Pending]
    /\ serial = TRUE
    /\ doc_failed = FALSE

Init ==
    /\ revit_api \in BOOLEAN
    /\ ValidatorIdle
    /\ TransactionIdle
    /\ ConfigIdle
    /\ DispatcherInit

\* ---------------------------------------------------------------- caller side
\* Any number of caller threads call execute_on_main_thread; a call keeps no
\* state from one call to the next, so the model follows each call (one per
\* request) and not the thread that makes it.

\* RevitEventManager.is_available
is_available == REVIT_API_AVAILABLE /\ external_event # "None"

\* A request is pending once it is the current request and until the host has
\* written its completion: queued (current, not started) or running.
Queued(r) == current_request = r /\ ~(hpc \in {"running", "clear"} /\ hreq = r)
Running(r) == hpc = "running" /\ hreq = r
IsPending(r) == Queued(r) \/ Running(r)

\* wait_for_result gave the caller the request's completion (value or error)
Completed(r) == delivered[r].kind \notin {"Pending", "TimeoutError"}

\* initialize_event_manager / RevitEventManager.initialize
Initialize ==
    /\ ModuleImported
    /\ external_event = "None"
    /\ external_event' = "ExternalEvent"
    /\ UNCHANGED <<outsideVars, dispatcherVars, pc, hostVars, historyVars, raised,
                   validated>>

\* safety_validator.validate_action(action): raises or returns, changes nothing
ValidateAction(a) ==
    /\ a \notin validated
    /\ validated' = validated \cup {a}
    /\ UNCHANGED <<outsideVars, external_event, dispatcherVars, pc, hostVars, historyVars,
                   raised>>

\* execute_on_main_thread, development mode: logs a warning and returns None;
\* no request is created and no state of the dispatcher changes
SkipOperation ==
    /\ ModuleImported
    /\ ~is_available
    /\ UNCHANGED vars

\* execute_on_main_thread up to the return of queue_operation: the request is
\* created, put on request_queue and made the current request.  The put is one
\* step with the assignment because nothing reads request_queue: wherever the
\* put falls before the assignment, every other thread sees the same.
QueueOperation(call) ==
    /\ is_available
    /\ Len(request_queue) < MaxRequests
    /\ LET r == Len(request_queue) + 1 IN
        /\ request_queue' = Append(request_queue, r)
        /\ operation' = [operation EXCEPT ![r] = call.does]
        /\ action_of' = [action_of EXCEPT ![r] = call.action]
        /\ timeout' = [timeout EXCEPT ![r] = call.timeout]
        /\ current_request' = r
        /\ pc' = [pc EXCEPT ![r] = "raise"]
    /\ serial' = (serial /\ \A q \in Created : Completed(q))
    /\ UNCHANGED <<outsideVars, external_event, result_queue, exception, hostVars, raised,
                   validated, executions, puts, delivered, doc_failed>>

\* self.external_event.Raise(): one wake signal for the host loop
RaiseTwice(r) ==
    /\ pc[r] = "raise"
    /\ raised' = raised + 2
    /\ pc' = [pc EXCEPT ![r] = "wait"]
    /\ UNCHANGED <<outsideVars, external_event, dispatcherVars, hostVars, historyVars,
                   validated>>
RaiseEvent(r) ==
    /\ pc[r] = "raise"
    /\ raised' = raised + 1
    /\ pc' = [pc EXCEPT ![r] = "wait"]
    /\ UNCHANGED <<outsideVars, external_event, dispatcherVars, hostVars, historyVars,
                   validated>>

\* which result_queue a request's execute() and wait_for_result() use: its own
SharedResultQueue(r) == 1
ResultQueueOf(r) == r

\* wait_for_result on an item it got: return the value, or raise RevitAPIError
\* whose message holds str() of what the operation raised
ReraiseOriginal(item) ==
    IF item.status = "success" THEN Returned(item.value)
    ELSE Raised(item.value.kind, item.value.text)
wait_result(item) ==
    IF item.status = "success" THEN Returned(item.value)
    ELSE Raised("RevitAPIError", "Revit operation failed: " \o item.value.text)

\* wait_for_result when get() raised Empty
wait_timed_out == Raised("TimeoutError", "Revit operation timed out")

\* Queue.get(timeout=t) on an empty queue gives up at once when t is 0
ZeroTimeoutBlocks(t) == FALSE
GivesUpAtOnce(t) == t = 0

\* execute_on_main_thread returns or raises what wait_for_result did
Finish(r, how) ==
    /\ delivered' = [delivered EXCEPT ![r] = how]
    /\ pc' = [pc EXCEPT ![r] = "returned"]

\* wait_for_result: result_queue.get(timeout=timeout) is entered
WaitEnter(r) ==
    /\ pc[r] = "wait"
    /\ LET q == ResultQueueOf(r) IN
        IF result_queue[q] # <<>>
        THEN /\ Finish(r, wait_result(Head(result_queue[q])))
             /\ result_queue' = [result_queue EXCEPT ![q] = Tail(@)]
        ELSE IF GivesUpAtOnce(timeout[r])
        THEN /\ Finish(r, wait_timed_out)
             /\ UNCHANGED result_queue
        ELSE /\ pc' = [pc EXCEPT ![r] = "blocked"]
             /\ UNCHANGED <<result_queue, delivered>>
    /\ UNCHANGED <<outsideVars, external_event, current_request, request_queue, operation,
                   action_of, timeout, exception, hostVars, raised, validated,
                   executions, puts, serial, doc_failed>>

\* the blocked get() is woken by a put and takes the item
WaitWake(r) ==
    /\ pc[r] = "blocked"
    /\ LET q == ResultQueueOf(r) IN
        /\ result_queue[q] # <<>>
        /\ Finish(r, wait_result(Head(result_queue[q])))
        /\ result_queue' = [result_queue EXCEPT ![q] = Tail(@)]
    /\ UNCHANGED <<outsideVars, external_event, current_request, request_queue, operation,
                   action_of, timeout, exception, hostVars, raised, validated,
                   executions, puts, serial, doc_failed>>

\* the blocked get() runs out of time with the queue still empty
WaitTimeout(r) ==
    /\ pc[r] = "blocked"
    /\ timeout[r] # WaitForever
    /\ result_queue[ResultQueueOf(r)] = <<>>
    /\ Finish(r, wait_timed_out)
    /\ UNCHANGED <<outsideVars, external_event, dispatcherVars, hostVars, raised, validated,
                   executions, puts, serial, doc_failed>>

\* ------------------------------------------------------------------ host side
\* The host loop delivers a wake-up it was not asked for by a Raise(): its
\* notify primitive is at-least-once, and Execute guards against finding nothing.
\* Wake-ups are served one at a time and are all alike, so one more is added
\* only when none is pending: a run with several pending is a run of this kind.
DuplicateWakeup ==
    /\ is_available
    /\ raised = 0
    /\ raised' = raised + 1
    /\ UNCHANGED <<outsideVars, external_event, dispatcherVars, pc, hostVars,
                   historyVars, validated>>

\* Execute with no current request: return Result.Failed
ReportsSucceeded == "Succeeded"
NothingToDo == "Failed"

\* the request Execute runs: self.current_request
OldestQueued == Head(request_queue)
RequestToExecute == current_request

\* Execute up to the start of the operation: the check of current_request,
\* uidoc = uiapp.ActiveUIDocument (an exception raised there is caught by
\* Execute, which returns Result.Failed), self.current_request.execute(uidoc).
\* The check and the second read of current_request are one step: between them
\* a caller can only store another request, never None, and the run is then
\* the one in which that store came first.
ExecuteBegin(doc_ok) ==
    /\ hpc = "idle"
    /\ raised > 0
    /\ raised' = raised - 1
    /\ IF current_request = None
       THEN /\ last_result' = NothingToDo
            /\ UNCHANGED <<hpc, hreq, executions, doc_failed>>
       ELSE IF doc_ok
       THEN /\ hreq' = RequestToExecute
            /\ executions' = Append(executions, RequestToExecute)
            /\ hpc' = "running"
            /\ last_result' = "none"
            /\ UNCHANGED doc_failed
       ELSE /\ last_result' = "Failed"
            /\ doc_failed' = TRUE
            /\ UNCHANGED <<hpc, hreq, executions>>
    /\ UNCHANGED <<outsideVars, external_event, dispatcherVars, pc, validated, puts,
                   delivered, serial>>

\* RevitOperationRequest.execute: the operation returned or raised; the
\* completion is put on the result queue (put blocks while the queue is full)
OperationDone ==
    /\ hpc = "running"
    /\ LET q == ResultQueueOf(hreq)
           o == operation[hreq] IN
        /\ Len(result_queue[q]) < ResultQueueMaxsize
        /\ IF IsException(o)
           THEN /\ exception' = [exception EXCEPT ![hreq] = o]
                /\ result_queue' = [result_queue EXCEPT ![q] =
                                       Append(@, [status |-> "error", value |-> o])]
           ELSE /\ UNCHANGED exception
                /\ result_queue' = [result_queue EXCEPT ![q] =
                                       Append(@, [status |-> "success", value |-> o])]
    /\ puts' = [puts EXCEPT ![hreq] = @ + 1]
    /\ hpc' = "clear"
    /\ UNCHANGED <<outsideVars, external_event, current_request, request_queue, operation,
                   action_of, timeout, pc, hreq, last_result, raised, validated,
                   executions, delivered, serial, doc_failed>>

\* Execute: self.current_request = None; return Result.Succeeded
KeepsCurrentRequest == current_request
ClearedCurrentRequest == None

ExecuteClear ==
    /\ hpc = "clear"
    /\ current_request' = ClearedCurrentRequest
    /\ last_result' = "Succeeded"
    /\ hpc' = "idle"
    /\ hreq' = None
    /\ UNCHANGED <<outsideVars, external_event, request_queue, operation, action_of, timeout,
                   result_queue, exception, pc, raised, validated, historyVars>>

\* ---------------------------------------------------------------- specification
Next ==
    \/ Initialize
    \/ \E a \in DispatchActions : ValidateAction(a)
    \/ SkipOperation
    \/ \E call \in Calls : QueueOperation(call)
    \/ \E r \in RequestIds : RaiseEvent(r)
    \/ \E r \in RequestIds : WaitEnter(r)
    \/ \E r \in RequestIds : WaitWake(r)
    \/ \E r \in RequestIds : WaitTimeout(r)
    \/ DuplicateWakeup
    \/ \E doc_ok \in BOOLEAN : ExecuteBegin(doc_ok)
    \/ OperationDone
    \/ ExecuteClear

Spec == Init /\ [][Next]_vars

\* ----------------------------------------------- an operation with a transaction
\* example_create_text_note(uidoc, text, location), dispatched to the host and
\* run by RevitOperationRequest.execute; the caller waits in wait_for_result.
\* The transaction is the repository's MockTransaction.  The host undoes on
\* RollBack what was done to the document since Start; Commit keeps it.

\* the documents an operation is submitted on, and the texts of the notes
InitialDocuments == {<<>>, <<"Room 101">>, <<"Room 101", "Kitchen">>}
NoteTexts == {"Kitchen", "Stair"}

\* the host calls of the operation, any one of which may raise
HostCalls == {"Start", "ActiveView", "GetDefaultElementTypeId", "Create", "Commit"}

\* the host exception a failing call raises
HostException(call) == Payload("InvalidOperationException", call \o " failed")

\* what the steps of the operation leave alone
otherVars == <<revit_api, validatorVars, configVars, managerVars>>

TransactionInit ==
    /\ Init
    /\ revit_api = TRUE

\* execute() calls the operation: doc = uidoc.Document, Transaction(doc, name),
\* __enter__
TxEnter ==
    /\ tpc = "idle"
    /\ fault' \in HostCalls \cup {"none"}
    /\ text' \in NoteTexts
    /\ document' \in InitialDocuments
    /\ submitted_document' = document'
    /\ tpc' = "Start"
    /\ UNCHANGED <<otherVars, restore, t_started, t_committed, exc, retval, tx_delivered,
                   commits, rollbacks>>

\* where control goes when a statement of the try block raises: the handler
InTry(at) == at \in {"ActiveView", "GetDefaultElementTypeId", "Create", "Commit"}

\* t.Start(): outside the try block, an exception leaves through __exit__
TxStart ==
    /\ tpc = "Start"
    /\ IF fault = "Start"
       THEN /\ exc' = HostException("Start")
            /\ tpc' = "exit"
            /\ UNCHANGED <<t_started, restore>>
       ELSE /\ t_started' = TRUE
            /\ restore' = document
            /\ tpc' = "ActiveView"
            /\ UNCHANGED exc
    /\ UNCHANGED <<otherVars, fault, text, document, t_committed, retval, tx_delivered,
                   submitted_document, commits, rollbacks>>

\* view = uidoc.ActiveView, then doc.GetDefaultElementTypeId(TextNote): the
\* arguments of TextNote.Create are evaluated before the call
TxRead(at, then) ==
    /\ tpc = at
    /\ IF fault = at
       THEN exc' = HostException(at) /\ tpc' = "handler"
       ELSE tpc' = then /\ UNCHANGED exc
    /\ UNCHANGED <<otherVars, fault, text, document, restore, t_started, t_committed, retval,
                   tx_delivered, submitted_document, commits, rollbacks>>

\* text_note = TextNote.Create(doc, view.Id, location, text, type_id)
TxCreate ==
    /\ tpc = "Create"
    /\ IF fault = "Create"
       THEN /\ exc' = HostException("Create")
            /\ tpc' = "handler"
            /\ UNCHANGED <<document, retval>>
       ELSE /\ document' = Append(document, text)
            /\ retval' = Payload("Value", text)
            /\ tpc' = "Commit"
            /\ UNCHANGED exc
    /\ UNCHANGED <<otherVars, fault, text, restore, t_started, t_committed, tx_delivered,
                   submitted_document, commits, rollbacks>>

\* t.Commit(); return text_note.  MockTransaction.Commit raises RuntimeError
\* when the transaction was not started.
TxCommit ==
    /\ tpc = "Commit"
    /\ IF fault = "Commit"
       THEN /\ exc' = HostException("Commit")
            /\ tpc' = "handler"
            /\ UNCHANGED <<t_committed, commits>>
       ELSE IF ~t_started
       THEN /\ exc' = Payload("RuntimeError", "Transaction not started")
            /\ tpc' = "handler"
            /\ UNCHANGED <<t_committed, commits>>
       ELSE /\ t_committed' = TRUE
            /\ commits' = commits + 1
            /\ tpc' = "exit"
            /\ UNCHANGED exc
    /\ UNCHANGED <<otherVars, fault, text, document, restore, t_started, retval, tx_delivered,
                   submitted_document, rollbacks>>

\* MockTransaction.RollBack, and what the host does to the document
RollBackKeepsChanges == document
RolledBackDocument == restore

\* except Exception as e: t.RollBack()
TxRollBack ==
    /\ tpc = "handler"
    /\ t_started' = FALSE
    /\ t_committed' = FALSE
    /\ document' = RolledBackDocument
    /\ rollbacks' = rollbacks + 1
    /\ tpc' = "raise"
    /\ UNCHANGED <<otherVars, fault, text, restore, exc, retval, tx_delivered,
                   submitted_document, commits>>

\* raise RevitAPIError(f"Failed to create text note: {e}") from e
TxRaise ==
    /\ tpc = "raise"
    /\ exc' = Payload("RevitAPIError", "Failed to create text note: " \o exc.text)
    /\ retval' = NoneValue
    /\ tpc' = "exit"
    /\ UNCHANGED <<otherVars, fault, text, document, restore, t_started, t_committed,
                   tx_delivered, submitted_document, commits, rollbacks>>

\* MockTransaction.__exit__: commit a started transaction left without an
\* exception, roll back a started one left with an exception
TxExit ==
    /\ tpc = "exit"
    /\ IF exc = NoneValue /\ t_started /\ ~t_committed
       THEN /\ t_committed' = TRUE
            /\ commits' = commits + 1
            /\ UNCHANGED <<t_started, document, rollbacks>>
       ELSE IF exc # NoneValue /\ t_started
       THEN /\ t_started' = FALSE
            /\ t_committed' = FALSE
            /\ document' = RolledBackDocument
            /\ rollbacks' = rollbacks + 1
            /\ UNCHANGED commits
       ELSE UNCHANGED <<t_started, t_committed, document, commits, rollbacks>>
    /\ tpc' = "left"
    /\ UNCHANGED <<otherVars, fault, text, restore, exc, retval, tx_delivered,
                   submitted_document>>

\* RevitOperationRequest.execute puts the value or the exception on the
\* result_queue and the caller's wait_for_result takes it
TxDeliver ==
    /\ tpc = "left"
    /\ tx_delivered' =
          IF exc = NoneValue
          THEN wait_result([status |-> "success", value |-> retval])
          ELSE wait_result([status |-> "error", value |-> exc])
    /\ tpc' = "delivered"
    /\ UNCHANGED <<otherVars, fault, text, document, restore, t_started, t_committed, exc,
                   retval, submitted_document, commits, rollbacks>>

TransactionNext ==
    \/ TxEnter
    \/ TxStart
    \/ TxRead("ActiveView", "GetDefaultElementTypeId")
    \/ TxRead("GetDefaultElementTypeId", "Create")
    \/ TxCreate
    \/ TxCommit
    \/ TxRollBack
    \/ TxRaise
    \/ TxExit
    \/ TxDeliver

TransactionSpec == TransactionInit /\ [][TransactionNext]_vars

\* ------------------------------------------------------- the validator at work
\* validate_action(action) on the Actions the assistant can send, under the
\* ceilings the validator loaded from the configuration.

\* a key the dict does not hold
Absent == -1
AbsentText == "<absent>"

\* SafetyValidator.check_scope_limits; an estimated_output_count of None is
\* Absent, and "if estimated_output_count:" skips None and 0
check_scope_limits(op, element_count, estimated_output_count, lim) ==
    IF element_count > lim.max_elements
    THEN ValidationError("Operation scope exceeds limit")
    ELSE IF estimated_output_count = Absent \/ estimated_output_count = 0
    THEN Accept
    ELSE IF op = "create_dimensions"
            /\ estimated_output_count > lim.max_dimensions
    THEN ValidationError("Estimated dimensions exceeds limit")
    ELSE IF op = "create_tags" /\ estimated_output_count > lim.max_tags
    THEN ValidationError("Estimated tags exceeds limit")
    ELSE Accept

\* the dict of an Action; a key is held unless its value is Absent
MakeTargets(element_count, scope, element_type) ==
    [keys |-> {k \in {"element_count"} : element_count # Absent}
                \cup {k \in {"scope"} : scope # AbsentText}
                \cup {k \in {"element_type"} : element_type # AbsentText},
     element_count |-> element_count, scope |-> scope, element_type |-> element_type]

MakeAction(op, element_count, count_key, estimated, scope, element_type) ==
    [isdict |-> TRUE,
     keys |-> {"operation", "targets"} \cup {k \in {count_key} : estimated # Absent},
     operation |-> op,
     targets |-> MakeTargets(element_count, scope, element_type),
     estimated_dimension_count |->
         IF count_key = "estimated_dimension_count" THEN estimated ELSE Absent,
     estimated_tag_count |->
         IF count_key = "estimated_tag_count" THEN estimated ELSE Absent]

\* the same dict without its 'operation' key
WithoutOperation(a) == [a EXCEPT !.keys = @ \ {"operation"}]

\* validate_action("invalid"): not a dict
NotADict == [isdict |-> FALSE, keys |-> {}]

UnknownOperations == {"rotate_view", ""}
OperationInputs == ALLOWED_OPERATIONS \cup BLOCKED_OPERATIONS \cup UnknownOperations

ElementCountInputs(lim) ==
    {Absent, 12, lim.max_elements, lim.max_elements + 1,
     2 * lim.max_elements, 2 * lim.max_elements + 1}
EstimateInputs(lim) ==
    {Absent, 48, lim.max_dimensions, lim.max_dimensions + 1,
     lim.max_tags, lim.max_tags + 1}
CountKeys == {"estimated_dimension_count", "estimated_tag_count"}
ScopeInputs ==
    {AbsentText, "", "current_view", "selected", "all", "Level 1", "Level ",
     "current view", "selection", "basement"}
ElementTypeInputs ==
    {AbsentText, "", "Door", "Window", "Room", "Wall", "Floor", "Ceiling", "Roof"}

\* The inputs vary in full what the named operation's checks read, and take
\* two values of what they do not read.
Varied(lim, op, element_count, estimated, scope, element_type) ==
    /\ op # "create_dimensions" => scope \in {AbsentText, "basement"}
    /\ op # "create_tags" => element_type \in {AbsentText, "Roof"}
    /\ op \notin ALLOWED_OPERATIONS =>
          /\ element_count \in {Absent, 12, 2 * lim.max_elements + 1}
          /\ estimated \in {Absent, 48}

ActionInputs(lim) ==
    LET dicts ==
          {MakeAction(op, ec, ck, est, sc, et) :
              <<op, ec, ck, est, sc, et>> \in
                  {t \in OperationInputs \X ElementCountInputs(lim) \X CountKeys
                            \X EstimateInputs(lim) \X ScopeInputs \X ElementTypeInputs :
                      Varied(lim, t[1], t[2], t[4], t[5], t[6])}}
               \cup {ValidDimensionAction, BlockedAction}
    IN dicts \cup {WithoutOperation(a) : a \in dicts} \cup {NotADict}

\* the ceilings SafetyValidator.__init__ loads: the defaults, or configured ones
ConfiguredLimits == [max_elements |-> 20, max_dimensions |-> 60, max_tags |-> 50]
LimitInputs == {DefaultLimits, ConfiguredLimits}

\* the module's sets as the source has them, and with a blocked operation
\* added to the allowlist as well
OverlapPolicy ==
    [allowed |-> ALLOWED_OPERATIONS \cup {"delete_elements"},
     blocked |-> BLOCKED_OPERATIONS]
PolicyInputs == {SourcePolicy, OverlapPolicy}

ValidatorInit ==
    /\ revit_api = TRUE
    /\ TransactionIdle
    /\ ConfigIdle
    /\ DispatcherInit
    /\ limits \in LimitInputs
    /\ policy \in PolicyInputs
    /\ action \in ActionInputs(limits)
    /\ verdict = NotValidated
    /\ scope_check = NotValidated
    /\ validations = 0

\* a validate_action that consumes what it read: action.pop('targets', {})
ValidatePopsTargets ==
    /\ validations < MaxValidations
    /\ verdict' = SafetyValidator_validate_action(action, limits, policy.allowed,
                                                   policy.blocked)
    /\ action' = IF action.isdict THEN [action EXCEPT !.keys = @ \ {"targets"}]
                                  ELSE action
    /\ validations' = validations + 1
    /\ UNCHANGED <<limits, policy, scope_check, revit_api, transactionVars, configVars,
                   managerVars>>
\* validator.validate_action(action): returns None or raises ValidationError
Validate ==
    /\ validations < MaxValidations
    /\ verdict' = SafetyValidator_validate_action(action, limits, policy.allowed,
                                                   policy.blocked)
    /\ validations' = validations + 1
    /\ UNCHANGED <<action, limits, policy, scope_check, revit_api, transactionVars,
                   configVars, managerVars>>

\* validator.check_scope_limits(operation, element_count, estimated_output_count)
\* for the operation and the counts of the Action: returns None or raises
CheckScopeLimits ==
    /\ action.isdict /\ "operation" \in action.keys
    /\ scope_check = NotValidated
    /\ scope_check' =
          check_scope_limits(
              action.operation,
              Get(Targets(action), "element_count", 0),
              IF action.operation = "create_tags"
              THEN Get(action, "estimated_tag_count", Absent)
              ELSE Get(action, "estimated_dimension_count", Absent),
              limits)
    /\ UNCHANGED <<action, limits, policy, verdict, validations, revit_api,
                   transactionVars, configVars, managerVars>>

ValidatorNext == Validate \/ CheckScopeLimits

ValidatorSpec == ValidatorInit /\ [][ValidatorNext]_vars

\* ------------------------------------------------------- configuration manager
\* One ConfigManager over the file at its config_path: callers call
\* load_config() and get(key, default) in any order.

\* ConfigManager.load_config: what it leaves in self._config and how it ends.
\* The document is stored in self._config before it is tested for emptiness,
\* and the "empty" error passes through "except Exception", which wraps it.
LoadsDefaultsWhenMissing(cache, file) ==
    IF cache # PyNone
    THEN [cache |-> cache, outcome |-> ConfigReturned(cache)]
    ELSE IF ~file.exists
    THEN [cache |-> PyDict({}), outcome |-> ConfigReturned(PyDict({}))]
    ELSE IF ~file.valid
    THEN [cache |-> cache,
          outcome |-> ConfigurationError("Invalid YAML in configuration file")]
    ELSE IF ~Truthy(file.yaml)
    THEN [cache |-> file.yaml,
          outcome |-> ConfigurationError(
              "Failed to load configuration: Configuration file is empty")]
    ELSE [cache |-> file.yaml, outcome |-> ConfigReturned(file.yaml)]
ConfigManager_load_config(cache, file) ==
    IF cache # PyNone
    THEN [cache |-> cache, outcome |-> ConfigReturned(cache)]
    ELSE IF ~file.exists
    THEN [cache |-> cache,
          outcome |-> ConfigurationError(
              IF file.example
              THEN "Configuration file not found. Please copy the example file"
              ELSE "Configuration file not found")]
    ELSE IF ~file.valid
    THEN [cache |-> cache,
          outcome |-> ConfigurationError("Invalid YAML in configuration file")]
    ELSE IF ~Truthy(file.yaml)
    THEN [cache |-> file.yaml,
          outcome |-> ConfigurationError(
              "Failed to load configuration: Configuration file is empty")]
    ELSE [cache |-> file.yaml, outcome |-> ConfigReturned(file.yaml)]

\* key.split('.')
RECURSIVE split(_)
split(key) ==
    IF \E i \in 1..Len(key) : SubSeq(key, i, i) = "."
    THEN LET i == CHOOSE i \in 1..Len(key) :
                      /\ SubSeq(key, i, i) = "."
                      /\ \A j \in 1..(i - 1) : SubSeq(key, j, j) # "."
         IN <<SubSeq(key, 1, i - 1)>> \o split(SubSeq(key, i + 1, Len(key)))
    ELSE <<key>>

\* "k in value" and value[k] for a dict
HasKey(value, k) == \E item \in value.items : item[1] = k
ItemOf(value, k) == (CHOOSE item \in value.items : item[1] = k)[2]

\* the loop of ConfigManager.get over the keys of the dotted path
RECURSIVE walk(_, _, _)
walk(value, keys, default) ==
    IF keys = <<>> THEN value
    ELSE IF value.t = "dict" /\ HasKey(value, Head(keys))
    THEN walk(ItemOf(value, Head(keys)), Tail(keys), default)
    ELSE default

\* ConfigManager.get: load_config() raises through it
ConfigManager_get(cache, file, key, default) ==
    LET loaded == ConfigManager_load_config(cache, file) IN
        IF loaded.outcome.raised THEN loaded
        ELSE [cache |-> loaded.cache,
              outcome |-> ConfigReturned(
                  walk(loaded.outcome.value, split(key), default))]

\* the sample configuration of test_config_manager, with a null value and a
\* third level added
SampleConfig ==
    PyDict({<<"language", PyStr("en")>>,
            <<"api_settings",
              PyDict({<<"model", PyStr("claude-sonnet-4")>>,
                      <<"timeout_seconds", PyInt(10)>>,
                      <<"max_retries", PyInt(3)>>,
                      <<"temperature", PyNone>>})>>,
            <<"safety", PyDict({<<"max_elements_per_operation", PyInt(500)>>})>>,
            <<"logging",
              PyDict({<<"log_level", PyStr("INFO")>>,
                      <<"rotation", PyDict({<<"backups", PyInt(0)>>})>>})>>})

\* documents with a value that is false to "if not self._config"
FalsyDocuments == {PyDict({}), PyList(<<>>), PyInt(0), PyBool(FALSE), PyStr("")}

ConfigFiles ==
    {MissingFile(FALSE), MissingFile(TRUE), InvalidFile, EmptyFile}
        \cup {FileOf(yaml) : yaml \in FalsyDocuments}
        \cup {FileOf(SampleConfig),
              FileOf(PyDict({<<"language", PyStr("he")>>})),
              FileOf(PyStr("language")),
              FileOf(PyList(<<PyStr("en")>>))}

KeyInputs ==
    {"language", "api_settings", "api_settings.model", "api_settings.temperature",
     "safety.max_elements_per_operation", "logging.rotation.backups",
     "nonexistent_key", "api_settings.nonexistent", "logging.rotation.nonexistent",
     "language.en", "safety.", ""}
DefaultInputs == {PyNone, PyStr("default"), PyInt(100)}

ConfigInit ==
    /\ revit_api = TRUE
    /\ ValidatorIdle
    /\ TransactionIdle
    /\ DispatcherInit
    /\ config_file \in ConfigFiles
    /\ _config = PyNone
    /\ config_result = NoCall
    /\ config_calls = 0

\* config.load_config()
LoadConfig ==
    /\ config_calls < MaxConfigCalls
    /\ LET done == ConfigManager_load_config(_config, config_file) IN
        /\ _config' = done.cache
        /\ config_result' = [call |-> "load_config", key |-> "", default |-> PyNone,
                             outcome |-> done.outcome]
    /\ config_calls' = config_calls + 1
    /\ UNCHANGED <<config_file, revit_api, validatorVars, transactionVars, managerVars>>

\* config.get(key, default); get(key) is get(key, None)
GetKey(key, default) ==
    /\ config_calls < MaxConfigCalls
    /\ LET done == ConfigManager_get(_config, config_file, key, default) IN
        /\ _config' = done.cache
        /\ config_result' = [call |-> "get", key |-> key, default |-> default,
                             outcome |-> done.outcome]
    /\ config_calls' = config_calls + 1
    /\ UNCHANGED <<config_file, revit_api, validatorVars, transactionVars, managerVars>>

ConfigNext ==
    \/ LoadConfig
    \/ \E key \in KeyInputs, default \in DefaultInputs : GetKey(key, default)

ConfigSpec == ConfigInit /\ [][ConfigNext]_vars

\* ------------------------------------------------------------------ properties
Count(seq, x) == Cardinality({i \in DOMAIN seq : seq[i] = x})

\* the host loop has served every wake-up and no call is between
\* queue_operation and Raise()
Quiescent == hpc = "idle" /\ raised = 0 /\ \A r \in Created : pc[r] # "raise"

\* C1: no operation is dispatched for an Action unless that Action first passed
\* validate_action: every request created (and so every request queued or
\* executed) carries out an Action validate_action was called on and accepted.
C1_DispatchOnlyValidated ==
    \A r \in Created :
        /\ action_of[r] \in validated
        /\ validate_action(ActionNamed(action_of[r])).ok

\* C2: each request's result_queue receives at most one value, whatever the
\* submissions and wake-ups: no request is executed twice, and the host's put
\* always finds the slot empty, so it never blocks.
C2_SingleCompletion ==
    /\ \A r \in RequestIds :
        /\ puts[r] <= 1
        /\ Count(executions, r) <= 1
        /\ Len(result_queue[r]) <= puts[r]
    /\ hpc = "running" => (puts[hreq] = 0 /\ result_queue[hreq] = <<>>)

\* a request was executed and a later wake-up of the host found nothing to do
C2_Witness ==
    /\ \E r \in Created : puts[r] = 1
    /\ hpc = "idle" /\ current_request = None
    /\ last_result = "Failed" /\ ~doc_failed

\* C4: a submit made while an earlier request is pending is rejected: no
\* request is created, queued or made current while another one is pending.
C4_RejectWhilePending ==
    [][Len(request_queue') > Len(request_queue)
         => ~ \E q \in Created : IsPending(q)]_vars

\* C3: when calls are made strictly one at a time (each after the earlier
\* ones got their result or error) and the host loop has served every wake-up,
\* every submitted request has been executed exactly once.
C3_SerialExecutedOnce ==
    (serial /\ ~doc_failed /\ Quiescent)
        => \A r \in Created : Count(executions, r) = 1

\* C5: requests run one at a time and in submission order: an execution
\* starts only after every earlier one has written its completion, and a
\* request submitted earlier is never started after one submitted later.
C5_OneAtATimeInOrder ==
    /\ \A i, j \in DOMAIN executions : i < j => executions[i] < executions[j]
    /\ \A i \in DOMAIN executions : i < Len(executions) => puts[executions[i]] = 1
    /\ hpc \in {"running", "clear"} =>
           (executions # <<>> /\ hreq = executions[Len(executions)])

\* two requests were executed, one after the other
C5_Witness == Len(executions) = 2 /\ puts[executions[2]] = 1

\* C6: wait_for_result with timeout 0 on a request with no completion yet fails
\* at once with TimeoutError; a completion the host writes afterwards goes into
\* the empty slot, the host returns, and no caller ever gets it.
C6_ZeroTimeout ==
    /\ [][\A r \in RequestIds :
            (pc[r] = "wait" /\ timeout[r] = 0 /\ result_queue[r] = <<>>
                /\ pc'[r] # "wait")
              => (pc'[r] = "returned" /\ delivered'[r] = wait_timed_out)]_vars
    /\ [][\A r \in RequestIds :
            delivered[r] = wait_timed_out => delivered'[r] = wait_timed_out]_vars
    /\ [](\A r \in RequestIds :
            delivered[r] = wait_timed_out =>
                /\ Len(result_queue[r]) = puts[r]
                /\ Running(r) => result_queue[r] = <<>>)

\* a wait with timeout 0 timed out and the host completed the request later
C6_Witness ==
    \E r \in Created :
        /\ timeout[r] = 0 /\ delivered[r] = wait_timed_out
        /\ puts[r] = 1 /\ Len(result_queue[r]) = 1
        /\ hpc = "idle" /\ last_result = "Succeeded"

\* C7: a request whose wait timed out while it was queued or running is still
\* run to completion by the host: once the host loop has served every wake-up,
\* every request whose wait timed out has been executed.
C7_TimedOutStillRuns ==
    (~doc_failed /\ Quiescent)
        => \A r \in Created : delivered[r] = wait_timed_out => puts[r] = 1

C9_OwnResult ==
    \A r \in Created :
        delivered[r] \notin {Pending, wait_timed_out} =>
            /\ puts[r] = 1
            /\ result_queue[r] = <<>>
            /\ ~IsException(operation[r]) => delivered[r] = Returned(operation[r])

\* two requests returned different values and each caller got its own
C9_Witness ==
    \E r, q \in Created :
        /\ delivered[r] = Returned(Payload("Value", "rooms"))
        /\ delivered[q] = Returned(Payload("Value", "text_note"))

\* C10: Execute with no current request returns Result.Failed, runs no
\* operation, writes to no result_queue and leaves the dispatcher as it was.
C10_NothingToDo ==
    [][(hpc = "idle" /\ current_request = None /\ raised' < raised)
         => /\ last_result' = "Failed"
            /\ hpc' = "idle"
            /\ UNCHANGED <<external_event, dispatcherVars, pc, hreq, executions,
                           puts, delivered>>]_vars

\* a wake-up came before any request was current: Execute returned Failed
C10_Witness ==
    /\ last_result = "Failed" /\ ~doc_failed
    /\ hpc = "idle" /\ current_request = None
    /\ executions = <<>> /\ Created = {}

\* C11: an Execute that finds a current request runs that request, writes the
\* value its operation returned or the exception it raised to the request's
\* result_queue, then clears the current request and returns Succeeded, when
\* the operation raised as well.
C11_ExecuteRunsCurrent ==
    /\ [][(hpc = "idle" /\ current_request # None /\ raised' < raised)
            => (hpc' = "running" /\ hreq' = current_request)]_vars
    /\ [][(hpc = "running" /\ hpc' # "running")
            => /\ hpc' = "clear"
               /\ result_queue'[hreq] =
                    <<[status |-> IF IsException(operation[hreq]) THEN "error"
                                  ELSE "success",
                       value |-> operation[hreq]]>>]_vars
    /\ [][(hpc = "clear" /\ hpc' # "clear")
            => (hpc' = "idle" /\ current_request' = None
                /\ last_result' = "Succeeded")]_vars

\* C12: a call raises the wake signal exactly once: one signal, in a step that
\* is always possible once the request is recorded (Raise() does not block),
\* taken only after queue_operation has made the request the current one, and
\* the rest of the call raises no further signal.
C12_OneWakePerSubmission ==
    /\ [][\A r \in RequestIds :
            (pc[r] = "raise" /\ pc'[r] # "raise")
              => (raised' = raised + 1 /\ pc'[r] = "wait" /\ r \in Created)]_vars
    /\ [][\A r \in RequestIds :
            (pc[r] # "raise" /\ pc'[r] # pc[r]) => raised' = raised]_vars
    /\ [][\A r \in RequestIds :
            (pc[r] = "none" /\ pc'[r] # "none")
              => (pc'[r] = "raise" /\ current_request' = r)]_vars
    /\ [](\A r \in RequestIds : pc[r] = "raise" => ENABLED RaiseEvent(r))

\* a call has raised its signal and waits; the host has not served it yet
C12_Witness ==
    \E r \in Created :
        pc[r] = "blocked" /\ raised = 1 /\ current_request = r /\ hpc = "idle"

\* C13: the request_queue holds at most one request in every state, and a
\* request the host has executed is no longer in it.
C13_SingleSlotQueue ==
    /\ Len(request_queue) <= 1
    /\ \A r \in Created : puts[r] = 1 => Count(request_queue, r) = 0

\* C14: when the event manager is not available (no Revit API, or no external
\* event yet) a call of execute_on_main_thread is possible and is a no-op, and
\* no request can be created; when it is available the call is not a no-op.
C14_NoHostNoOp ==
    /\ ~is_available =>
          /\ ENABLED SkipOperation
          /\ ~ENABLED (\E call \in Calls : QueueOperation(call))
    /\ is_available => ~ENABLED SkipOperation

WellFormed == action.isdict /\ "operation" \in action.keys
Validated == verdict # NotValidated

StructuralReasons == {"Action must be a dictionary", "Action missing 'operation' field"}

\* C16: an Action that is not a dict or holds no 'operation' key is rejected
\* with a structural reason, whatever else it holds (blocked or unknown
\* operation, counts above the ceilings, a bad scope); no well-formed Action is
\* ever rejected with a structural reason.
C16_StructuralFirst ==
    Validated =>
        /\ ~WellFormed =>
              /\ ~verdict.ok /\ verdict.error = "ValidationError"
              /\ verdict.reason \in StructuralReasons
              /\ verdict.reason = IF action.isdict
                                  THEN "Action missing 'operation' field"
                                  ELSE "Action must be a dictionary"
        /\ WellFormed => verdict.reason \notin StructuralReasons

\* an Action with no operation and an element count above every ceiling
C16_Witness ==
    /\ Validated /\ action.isdict /\ "operation" \notin action.keys
    /\ "element_count" \in action.targets.keys
    /\ action.targets.element_count > 2 * limits.max_elements
    /\ verdict.reason = "Action missing 'operation' field"

C18_NotAllowedListsAllowlist ==
    (Validated /\ WellFormed
       /\ action.operation \notin policy.allowed \cup policy.blocked)
        => /\ ~verdict.ok
           /\ \E seq \in [1..Cardinality(policy.allowed) -> policy.allowed] :
                 /\ \A i, j \in DOMAIN seq : i < j => StrLess(seq[i], seq[j])
                 /\ verdict.reason =
                      "Operation '" \o action.operation \o "' is not allowed. "
                          \o "Permitted operations: " \o join(", ", seq)
           /\ policy = SourcePolicy =>
                 verdict.reason =
                      "Operation '" \o action.operation \o "' is not allowed. "
                          \o "Permitted operations: "
                          \o "create_dimensions, create_tags, read_elements"

\* an unknown operation was rejected with the allowlist in its message
C18_Witness ==
    /\ Validated /\ WellFormed /\ action.operation = "rotate_view"
    /\ verdict.reason =
          "Operation 'rotate_view' is not allowed. "
              \o "Permitted operations: create_dimensions, create_tags, read_elements"

\* the counts validate_action reads from the Action under validation
ElementCount == Get(Targets(action), "element_count", 0)
DimensionCount == Get(action, "estimated_dimension_count", 0)
TagCount == Get(action, "estimated_tag_count", 0)
CeilingReasons ==
    {"Operation scope too large", "Too many dimensions", "Too many tags",
     "Query scope too large"}

C20_TagTypeList ==
    (Validated /\ WellFormed /\ action.operation = "create_tags"
       /\ action.operation \in policy.allowed \ policy.blocked
       /\ "element_type" \in Targets(action).keys)
        => /\ (/\ Targets(action).element_type \notin AllowedTagTypes
               /\ ElementCount <= limits.max_elements
               /\ TagCount <= limits.max_tags)
                 => (~verdict.ok /\ verdict.reason = "Cannot tag element type")
           /\ Targets(action).element_type \in AllowedTagTypes
                 => verdict.reason # "Cannot tag element type"

\* the operation of the Action passed the blocklist and the allowlist
OperationAllowed == action.operation \in policy.allowed \ policy.blocked

\* scope strings the dimension check is to accept: the three scope kinds and
\* a level name, "Level " followed by an identifier
ScopeKinds == {"current view", "selection", "all"}
IsLevelName(scope) == Len(scope) > 6 /\ SubSeq(scope, 1, 6) = "Level "

\* C21: for create_dimensions with its counts within the ceilings, a
\* targets.scope that is present is accepted when it is "current view",
\* "selection", "all" or "Level " followed by an identifier, and every other
\* scope string is rejected as an invalid scope.
C21_ScopeNames ==
    (Validated /\ WellFormed /\ action.operation = "create_dimensions"
       /\ OperationAllowed
       /\ "scope" \in Targets(action).keys
       /\ ElementCount <= limits.max_elements
       /\ DimensionCount <= limits.max_dimensions)
        => IF Targets(action).scope \in ScopeKinds \/ IsLevelName(Targets(action).scope)
           THEN verdict = Accept
           ELSE ~verdict.ok /\ verdict.reason = "Invalid scope"

\* C22: validate_action has no side effects.  Every call leaves the Action,
\* the allowlist, the blocklist and the three ceilings as they were, and a
\* second call on the same Action gives the outcome of the first, be it an
\* acceptance or a rejection.
C22_ValidatePure ==
    [][validations' = validations + 1
         => /\ action' = action /\ limits' = limits /\ policy' = policy
            /\ scope_check' = scope_check
            /\ Validated => verdict' = verdict
            /\ verdict' = SafetyValidator_validate_action(action', limits',
                                                           policy'.allowed,
                                                           policy'.blocked)]_vars

\* an Action over a ceiling was validated twice and rejected twice
C22_Witness ==
    /\ validations = 2 /\ WellFormed /\ OperationAllowed
    /\ "element_count" \in Targets(action).keys
    /\ ElementCount > 2 * limits.max_elements
    /\ ~verdict.ok /\ verdict.reason \in CeilingReasons

\* reason starts with text
StartsWith(reason, prefix) ==
    Len(reason) >= Len(prefix) /\ SubSeq(reason, 1, Len(prefix)) = prefix

\* C24: for every operation in the blocklist validate_action raises a
\* ValidationError whose message states "Operation '<operation>' is not
\* allowed".
C24_BlockedIsNotAllowed ==
    (Validated /\ WellFormed /\ action.operation \in policy.blocked)
        => /\ ~verdict.ok /\ verdict.error = "ValidationError"
           /\ StartsWith(verdict.reason,
                         "Operation '" \o action.operation \o "' is not allowed")

\* C25: validation of a read_elements Action accepts a small element count
\* and rejects an element count of max_elements + 1.
C25_ReadCeiling ==
    (Validated /\ WellFormed /\ action.operation = "read_elements"
       /\ OperationAllowed)
        => /\ ElementCount = 12 => verdict = Accept
           /\ ElementCount = limits.max_elements + 1
                 => (~verdict.ok /\ verdict.reason = "Query scope too large")

\* the reasons of the operation-specific checks
OperationReasons ==
    CeilingReasons \cup {"Invalid scope", "Cannot tag element type"}

\* an Action that names its operation and holds no count, scope or type
Minimal ==
    /\ WellFormed
    /\ Targets(action).keys = {}
    /\ action.keys \subseteq {"operation", "targets"}

\* C26: an Action that names an operation of the allowlist never fails with a
\* "not allowed" reason; unless the operation is blocked as well, any rejection
\* it gets is an operation-specific one, and a minimal Action, with no counts
\* and no scope, passes validation.
C26_AllowedPassAllowlist ==
    (Validated /\ WellFormed /\ action.operation \in policy.allowed)
        => /\ ~StartsWith(verdict.reason,
                          "Operation '" \o action.operation \o "' is not allowed")
           /\ verdict.reason # NotAllowedMessage(action.operation, policy.allowed)
           /\ OperationAllowed =>
                 /\ ~verdict.ok => verdict.reason \in OperationReasons
                 /\ Minimal => verdict = Accept

\* the minimal read_elements Action passed validation
C26_Witness ==
    /\ Validated /\ Minimal /\ action.operation = "read_elements"
    /\ OperationAllowed /\ verdict = Accept

\* check_scope_limits was called for the Action under validation
ScopeChecked == scope_check # NotValidated

\* C29: check_scope_limits and validate_action agree on the size limits: for
\* the operation, element count and estimated output count of one Action,
\* check_scope_limits raises exactly when validate_action rejects the Action
\* for exceeding a ceiling, for create_dimensions, create_tags and
\* read_elements.
C29_ScopeLimitsAgree ==
    (Validated /\ ScopeChecked /\ WellFormed /\ OperationAllowed
       /\ action.operation \in {"create_dimensions", "create_tags", "read_elements"})
        => (~scope_check.ok <=> verdict.reason \in CeilingReasons)

\* C27: Execute clears only the request it executed.  A request made current
\* while the host runs an earlier one is still the current request when that
\* Execute returns, so the latest request is at every moment the current
\* request or one the host has begun to execute: none is dropped unexecuted.
C27_ClearsOnlyExecuted ==
    [][/\ (hpc = "clear" /\ hpc' = "idle")
            => current_request' = IF current_request = hreq THEN None
                                  ELSE current_request
       /\ Len(request_queue') > 0
            => \/ current_request' = Len(request_queue')
               \/ Count(executions', Len(request_queue')) > 0]_vars

\* C28: every Execute that finds a current request puts a completion on that
\* request's result_queue and has cleared the current request when it returns,
\* also when uiapp.ActiveUIDocument raises before the operation starts.
C28_ExecuteAlwaysCompletes ==
    /\ [][\A r \in RequestIds :
            (hpc = "idle" /\ current_request = r /\ raised' < raised)
              => \/ hpc' = "running" /\ hreq' = r
                 \/ puts'[r] = puts[r] + 1 /\ current_request' = None]_vars
    /\ [][(hpc # "idle" /\ hpc' = "idle")
            => (puts'[hreq] >= 1 /\ current_request' = None)]_vars

\* the names a dotted key is made of, and the paths that spell a key
KeyNames ==
    {"language", "api_settings", "model", "temperature", "safety",
     "max_elements_per_operation", "logging", "rotation", "backups",
     "nonexistent_key", "nonexistent", "en", ""}
PathsOf(key) ==
    {path \in UNION {[1..n -> KeyNames] : n \in 1..3} : join(".", path) = key}

\* the values found at a path of a document: none when a key of the path is
\* missing or a value on the way is not a dict
RECURSIVE Reach(_, _)
Reach(value, path) ==
    IF path = <<>> THEN {value}
    ELSE IF value.t # "dict" THEN {}
    ELSE UNION {Reach(item[2], Tail(path)) :
                   item \in {it \in value.items : it[1] = Head(path)}}

\* C23: a lookup returns the supplied default (None when none is supplied)
\* only when a key of the dotted path, at whatever depth, is missing from the
\* document of a source that exists and was read, and returns the value at
\* the path otherwise; when the source is missing the lookup raises
\* ConfigurationError and returns no default.
C23_DefaultOnlyForMissingKey ==
    config_result.call = "get" =>
        /\ ~config_file.exists =>
              /\ config_result.outcome.raised
              /\ config_result.outcome.error = "ConfigurationError"
        /\ ~config_result.outcome.raised =>
              /\ config_file.exists /\ config_file.valid
              /\ \E path \in PathsOf(config_result.key) :
                    IF Reach(config_file.yaml, path) = {}
                    THEN config_result.outcome.value = config_result.default
                    ELSE config_result.outcome.value \in Reach(config_file.yaml, path)

\* a key missing at the third level of the sample configuration gave the default
C23_Witness ==
    /\ config_result.call = "get" /\ config_file = FileOf(SampleConfig)
    /\ config_result.key = "logging.rotation.nonexistent"
    /\ config_result.default = PyInt(100)
    /\ config_result.outcome = ConfigReturned(PyInt(100))

\* C30: a failed load_config leaves no configuration cached.  A call that
\* raised leaves self._config None, and the next load_config or get on the
\* manager, the source being as it was, raises ConfigurationError again; after
\* a call that returned, the next call leaves the cached snapshot as it is and
\* load_config returns it.
C30_FailedLoadNotCached ==
    [][config_calls' = config_calls + 1
         => /\ config_result'.outcome.raised =>
                  /\ config_result'.outcome.error = "ConfigurationError"
                  /\ _config' = PyNone
            /\ (config_result.call # "none" /\ config_result.outcome.raised)
                  => config_result'.outcome.raised
            /\ (config_result.call # "none" /\ ~config_result.outcome.raised)
                  => /\ ~config_result'.outcome.raised
                     /\ _config' = _config
                     /\ config_result'.call = "load_config"
                           => config_result'.outcome.value = _config]_vars

====
